---- MODULE Spec2Model ----
(***************************************************************************)
(* ooplus.js (src/index.js): property, enhance, extend, callSuper, $super. *)
(*                                                                         *)
(* The functions work on JavaScript objects, so the model carries the part *)
(* of the object model they use: a heap of objects, each with a prototype  *)
(* link and own data properties (value, writable, enumerable,              *)
(* configurable), with [[Get]], [[Set]], [[DefineOwnProperty]] and the     *)
(* `in` operator computed as ECMAScript defines them for data properties.  *)
(* index.js is an ES module, hence strict code: a failed assignment in it  *)
(* raises TypeError.  Accessor (get/set) properties are not modelled.      *)
(*                                                                         *)
(* Three specifications share the variables:                               *)
(*   SpecExtend   extend() and the construction of derived instances       *)
(*   SpecEnhance  enhance(), property(), instances and assignments         *)
(*   SpecSuper    callSuper() and $super() on a chain of overrides         *)
(***************************************************************************)
EXTENDS Integers, Sequences, FiniteSets, TLC

VARIABLES heap, prog, stack, log, last, aux

vars == <<heap, prog, stack, log, last, aux>>

----------------------------------------------------------------------------
(* Values *)

Null == 0

Undefined == [kind |-> "undefined", id |-> 0]

Num(n) == [kind |-> "num", id |-> n]

Ref(o) == [kind |-> "object", id |-> o]

Fn(n) == [kind |-> "function", id |-> n]

ProxyVal(p) == [kind |-> "proxy", id |-> p]

\* JavaScript truthiness of the values the model uses (0 and undefined are falsy).
Truthy(v) == ~(v.kind = "undefined" \/ (v.kind = "num" /\ v.id = 0))

----------------------------------------------------------------------------
(* Objects *)

EmptyProps == [k \in {} |-> Undefined]

\* {} / Object.create(proto): an object with no own property.
NewObject(proto) == [proto |-> proto, props |-> EmptyProps]

\* A property created by plain assignment.
DataDesc(v) ==
  [value |-> v, writable |-> TRUE, enumerable |-> TRUE, configurable |-> TRUE]

HasOwn(h, o, k) == k \in DOMAIN h[o].props

RECURSIVE FindProp(_, _, _)
\* The nearest object of o's prototype chain (o included) that owns k, or Null.
FindProp(h, o, k) ==
  IF o = Null THEN Null
  ELSE IF HasOwn(h, o, k) THEN o
  ELSE FindProp(h, h[o].proto, k)

\* k in o
HasProperty(h, o, k) == FindProp(h, o, k) # Null

\* o[k]
Get(h, o, k) ==
  LET owner == FindProp(h, o, k)
  IN  IF owner = Null THEN Undefined ELSE h[owner].props[k].value

WithProp(h, o, k, d) ==
  [h EXCEPT ![o].props =
     [x \in DOMAIN h[o].props \cup {k} |-> IF x = k THEN d ELSE h[o].props[x]]]

\* delete o[k] (every property the code deletes is configurable)
DeleteProp(h, o, k) ==
  [h EXCEPT ![o].props = [x \in DOMAIN h[o].props \ {k} |-> h[o].props[x]]]

\* o[k] = v in strict code: [ok, heap]; ok = FALSE is a TypeError.
Set(h, o, k, v) ==
  LET owner == FindProp(h, o, k)
  IN  IF owner = Null
        THEN [ok |-> TRUE, heap |-> WithProp(h, o, k, DataDesc(v))]
      ELSE IF ~h[owner].props[k].writable
        THEN [ok |-> FALSE, heap |-> h]
      ELSE IF owner = o
        THEN [ok |-> TRUE, heap |-> [h EXCEPT ![o].props[k].value = v]]
      ELSE [ok |-> TRUE, heap |-> WithProp(h, o, k, DataDesc(v))]

Has(d, f) == f \in DOMAIN d

DefineAsAssignment(h, o, k, d) ==
  Set(h, o, k, IF Has(d, "value") THEN d.value ELSE Undefined)

\* Object.defineProperty(o, k, d) for a data descriptor d (a record holding any
\* of value, writable, enumerable, configurable): [ok, heap]; ok = FALSE is a
\* TypeError.
DefineProperty(h, o, k, d) ==
  IF ~HasOwn(h, o, k)
    THEN [ok |-> TRUE,
          heap |-> WithProp(h, o, k,
            [value |-> IF Has(d, "value") THEN d.value ELSE Undefined,
             writable |-> Has(d, "writable") /\ d.writable,
             enumerable |-> Has(d, "enumerable") /\ d.enumerable,
             configurable |-> Has(d, "configurable") /\ d.configurable])]
  ELSE
    LET cur == h[o].props[k]
        rejected ==
          /\ ~cur.configurable
          /\ \/ Has(d, "configurable") /\ d.configurable
             \/ Has(d, "enumerable") /\ d.enumerable # cur.enumerable
             \/ /\ ~cur.writable
                /\ \/ Has(d, "writable") /\ d.writable
                   \/ Has(d, "value") /\ d.value # cur.value
    IN  IF rejected THEN [ok |-> FALSE, heap |-> h]
        ELSE [ok |-> TRUE,
              heap |-> WithProp(h, o, k,
                [value |-> IF Has(d, "value") THEN d.value ELSE cur.value,
                 writable |-> IF Has(d, "writable") THEN d.writable ELSE cur.writable,
                 enumerable |->
                   IF Has(d, "enumerable") THEN d.enumerable ELSE cur.enumerable,
                 configurable |->
                   IF Has(d, "configurable") THEN d.configurable
                   ELSE cur.configurable])]

----------------------------------------------------------------------------
(* property, and the member loop of enhance and extend *)

Marker == "$IsPropertyDescriptor"

\* Object.prototype.hasOwnProperty.call(target, "$IsPropertyDescriptor")
isMarkedPropertyDescriptor(target) == Marker \in DOMAIN target

\* property(descriptor): arg is <<>> (no argument) or <<descriptor>>.
property(arg) ==
  LET descriptor == IF Len(arg) = 0 THEN EmptyProps ELSE arg[1]
  IN  [f \in DOMAIN descriptor \cup {Marker} |->
         IF f = Marker THEN TRUE ELSE descriptor[f]]

ApplyMemberIfAbsent(h, proto, key, member) ==
  IF HasOwn(h, proto, key) THEN [ok |-> TRUE, heap |-> h]
  ELSE IF isMarkedPropertyDescriptor(member)
    THEN DefineProperty(h, proto, key, member)
    ELSE Set(h, proto, key, member)

\* One turn of the member loop: a tagged descriptor goes through
\* Object.defineProperty, anything else through assignment.
ApplyMember(h, proto, key, member) ==
  IF isMarkedPropertyDescriptor(member)
    THEN DefineProperty(h, proto, key, member)
    ELSE Set(h, proto, key, member)

RECURSIVE ApplyMembers(_, _, _, _, _)
\* The loop over a member map (a sequence of <<key, member>>, in the map's key
\* order) from entry i on, skipping the keys in `reserved`.  It stops at the
\* first entry that raises: [ok, heap, at] with at = the entry that raised (0
\* when none did); the entries before it stay applied.
ApplyMembers(h, proto, members, i, reserved) ==
  IF i > Len(members) THEN [ok |-> TRUE, heap |-> h, at |-> 0]
  ELSE IF members[i][1] \in reserved
    THEN ApplyMembers(h, proto, members, i + 1, reserved)
  ELSE
    LET r == ApplyMember(h, proto, members[i][1], members[i][2])
    IN  IF r.ok THEN ApplyMembers(r.heap, proto, members, i + 1, reserved)
        ELSE [ok |-> FALSE, heap |-> r.heap, at |-> i]

\* members[key] for a member map held as a sequence; <<>> when key is not an own
\* key.
RECURSIVE Lookup(_, _, _)
Lookup(members, key, i) ==
  IF i > Len(members) THEN <<>>
  ELSE IF members[i][1] = key THEN <<members[i][2]>>
  ELSE Lookup(members, key, i + 1)

----------------------------------------------------------------------------
(* User code: constructors and pre-constructors *)

\* What a user function computes from its arguments.
ArgE(n) == [op |-> "arg", n |-> n]

SumE == [op |-> "sum", n |-> 0]

ConstE(n) == [op |-> "const", n |-> n]

Eval(e, args) ==
  IF e.op = "arg" THEN (IF e.n <= Len(args) THEN args[e.n] ELSE Undefined)
  ELSE IF e.op = "sum"
    THEN (IF Len(args) >= 2 THEN Num(args[1].id + args[2].id) ELSE Undefined)
  ELSE Num(e.n)

EvalAll(es, args) == [i \in 1..Len(es) |-> Eval(es[i], args)]

RECURSIVE RunWrites(_, _, _, _, _)
\* A user function's body, `this.field = expr` for each <<field, expr>> of
\* writes from i on, in strict code: [ok, heap]; it stops at a failed write.
RunWrites(h, this, writes, args, i) ==
  IF i > Len(writes) THEN [ok |-> TRUE, heap |-> h]
  ELSE
    LET r == Set(h, this, writes[i][1], Eval(writes[i][2], args))
    IN  IF r.ok THEN RunWrites(r.heap, this, writes, args, i + 1)
        ELSE [ok |-> FALSE, heap |-> r.heap]

\* The expression the last write of `writes` to field f assigns, as <<e>>; <<>>
\* when it writes no f.
RECURSIVE WrittenBy(_, _, _)
WrittenBy(writes, f, i) ==
  IF i = 0 THEN <<>>
  ELSE IF writes[i][1] = f THEN <<writes[i][2]>>
  ELSE WrittenBy(writes, f, i - 1)

----------------------------------------------------------------------------
(* extend *)

Fields == {"v", "sum", "b", "f"}

\* The order Object.assign visits the courier's keys in.  (JavaScript visits
\* them in insertion order; the order matters only for which key raises first.)
KeyOrder == <<"v", "sum", "b", "f">>

ArgVals == {3, 4}

MaxInstances == 2

\* Ids of the functions of the extend specification.
FnPre == 1

FnCtor == 2

FnBase == 3

\* The builtin Object, which `classDescriptor.constructor` reads from
\* Object.prototype when the descriptor has no own `constructor`.
FnObject == 4

\* The base class's constructor bodies: B(v) storing v, alone or with other
\* fields.
BaseCtors ==
  { <<<<"v", ArgE(1)>>>>,
    <<<<"v", ArgE(1)>>, <<"sum", ConstE(10)>>, <<"f", ConstE(10)>>>> }

NoFunction == [writes |-> <<>>, returns |-> <<>>]

PreCtors ==
  { [writes |-> <<>>, returns |-> <<SumE>>],
    [writes |-> <<<<"f", ConstE(20)>>, <<"sum", ConstE(20)>>>>,
     returns |-> <<ArgE(2), ArgE(1)>>],
    [writes |-> <<<<"v", ConstE(20)>>, <<"b", ConstE(20)>>>>,
     returns |-> <<SumE>>] }

Ctors ==
  { [writes |-> <<<<"sum", ArgE(1)>>, <<"b", ArgE(2)>>>>, returns |-> <<>>],
    [writes |-> <<<<"f", ConstE(30)>>, <<"v", ConstE(30)>>>>, returns |-> <<>>] }

\* Members of the class descriptor besides the two reserved ones.
ExtendMembers ==
  { <<>>,
    <<<<"f", Num(9)>>>>,
    <<<<"b", property(<<[writable |-> FALSE, value |-> Num(7)]>>)>>>> }

Reserved == {"preConstructor", "constructor"}

\* A class descriptor: its own entries in key order.
ClassDescriptor(hasPre, hasCtor, members) ==
  (IF hasPre THEN <<<<"preConstructor", Fn(FnPre)>>>> ELSE <<>>)
  \o (IF hasCtor THEN <<<<"constructor", Fn(FnCtor)>>>> ELSE <<>>)
  \o members

\* classDescriptor[key]: an own entry, else what Object.prototype gives.
DescriptorGet(descriptor, key) ==
  LET own == Lookup(descriptor, key, 1)
  IN  IF Len(own) > 0 THEN own[1]
      ELSE IF key = "constructor" THEN Fn(FnObject)
      ELSE Undefined

BasePrototype == 1

NoFrame == <<>>

NoLast == [op |-> "none", status |-> "none"]

InitExtend ==
  /\ heap = <<NewObject(Null)>>
  /\ \E base \in BaseCtors, hasPre \in BOOLEAN, hasCtor \in BOOLEAN,
        pre \in PreCtors, ctor \in Ctors, members \in ExtendMembers :
       /\ hasPre \/ pre = CHOOSE p \in PreCtors : p.writes = <<>>
       /\ hasCtor \/ ctor = CHOOSE c \in Ctors : Len(c.writes) = 2 /\ c.writes[1][1] = "sum"
       /\ prog = [funcs |-> <<pre, ctor, [writes |-> base, returns |-> <<>>]>>,
                  descriptor |-> ClassDescriptor(hasPre, hasCtor, members)]
  /\ stack = NoFrame
  /\ log = <<>>
  /\ last = NoLast
  /\ aux = [derived |-> Null, built |-> 0]

\* extend(baseClass, classDescriptor), lines 124-143: the new prototype and the
\* member loop.  (The constructor function of lines 111-123 is the actions below.)
Extend ==
  /\ aux.derived = Null
  /\ stack = NoFrame
  /\ LET proto == Len(heap) + 1
         r == ApplyMembers(Append(heap, NewObject(BasePrototype)), proto,
                           prog.descriptor, 1, Reserved)
     IN  /\ heap' = r.heap
         /\ aux' = [aux EXCEPT !.derived = IF r.ok THEN proto ELSE Null]
         /\ last' = [op |-> "extend", status |-> IF r.ok THEN "ok" ELSE "throw"]
  /\ UNCHANGED <<prog, stack, log>>

\* new derivedClass(...args), lines 111-113.
Construct(args) ==
  /\ aux.derived # Null
  /\ stack = NoFrame
  /\ aux.built < MaxInstances
  /\ heap' = Append(heap, NewObject(Null))
  /\ stack' = <<[pc |-> "pre", args |-> args, courier |-> Len(heap) + 1,
                 baseArgs |-> args, result |-> Null]>>
  /\ log' = <<>>
  /\ last' = [op |-> "construct", status |-> "running"]
  /\ aux' = [aux EXCEPT !.built = @ + 1]
  /\ UNCHANGED prog

Throw(h) ==
  /\ heap' = h
  /\ stack' = NoFrame
  /\ last' = [op |-> "construct", status |-> "throw"]
  /\ UNCHANGED <<prog, log, aux>>

\* Lines 114-116.
PreConstructor ==
  /\ stack # NoFrame
  /\ stack[1].pc = "pre"
  /\ LET fr == stack[1]
         pre == DescriptorGet(prog.descriptor, "preConstructor")
     IN  IF Truthy(pre)
           THEN LET f == prog.funcs[pre.id]
                    r == RunWrites(heap, fr.courier, f.writes, fr.args, 1)
                IN  IF r.ok
                      THEN /\ heap' = r.heap
                           /\ stack' = <<[fr EXCEPT !.pc = "base",
                                            !.baseArgs = EvalAll(f.returns, fr.args)]>>
                           /\ log' = Append(log, [ev |-> "preConstructor",
                                                  this |-> fr.courier, args |-> fr.args])
                           /\ UNCHANGED <<prog, last, aux>>
                      ELSE Throw(r.heap)
           ELSE /\ stack' = <<[fr EXCEPT !.pc = "base"]>>
                /\ UNCHANGED <<heap, prog, log, last, aux>>

\* Line 117: Reflect.construct(baseClass, baseArgs, derivedClass) makes an
\* object whose prototype is derivedClass.prototype and runs the base
\* constructor on it.
BaseConstruct ==
  /\ stack # NoFrame
  /\ stack[1].pc = "base"
  /\ LET fr == stack[1]
         result == Len(heap) + 1
         r == RunWrites(Append(heap, NewObject(aux.derived)), result,
                        prog.funcs[FnBase].writes, fr.baseArgs, 1)
     IN  IF r.ok
           THEN /\ heap' = r.heap
                /\ stack' = <<[fr EXCEPT !.pc = "assign", !.result = result]>>
                /\ log' = Append(log, [ev |-> "base", this |-> result,
                                       args |-> fr.baseArgs])
                /\ UNCHANGED <<prog, last, aux>>
           ELSE Throw(r.heap)

ConstructorArgsTransformed(fr) == fr.baseArgs

\* The arguments line 120 hands to `constructor`: the caller's.
ConstructorArgs(fr) == fr.args

RECURSIVE ObjectAssign(_, _, _, _)
\* Object.assign(target, source): target[k] = source[k] for each own enumerable
\* key of source, from KeyOrder[i] on; a failed assignment raises.
ObjectAssign(h, target, source, i) ==
  IF i > Len(KeyOrder) THEN [ok |-> TRUE, heap |-> h]
  ELSE IF HasOwn(h, source, KeyOrder[i]) /\ h[source].props[KeyOrder[i]].enumerable
    THEN LET r == Set(h, target, KeyOrder[i], Get(h, source, KeyOrder[i]))
         IN  IF r.ok THEN ObjectAssign(r.heap, target, source, i + 1)
             ELSE [ok |-> FALSE, heap |-> r.heap]
  ELSE ObjectAssign(h, target, source, i + 1)

RECURSIVE AssignMissing(_, _, _, _)
AssignMissing(h, target, source, i) ==
  IF i > Len(KeyOrder) THEN [ok |-> TRUE, heap |-> h]
  ELSE IF HasOwn(h, source, KeyOrder[i]) /\ ~HasOwn(h, target, KeyOrder[i])
    THEN LET r == Set(h, target, KeyOrder[i], Get(h, source, KeyOrder[i]))
         IN  IF r.ok THEN AssignMissing(r.heap, target, source, i + 1)
             ELSE [ok |-> FALSE, heap |-> r.heap]
  ELSE AssignMissing(h, target, source, i + 1)

CopyCourierKeepingBase(h, result, courier) == AssignMissing(h, result, courier, 1)

\* Object.assign(result, courier)
CopyCourier(h, result, courier) == ObjectAssign(h, result, courier, 1)

\* Line 118.
AssignCourier ==
  /\ stack # NoFrame
  /\ stack[1].pc = "assign"
  /\ LET fr == stack[1]
         r == CopyCourier(heap, fr.result, fr.courier)
     IN  IF r.ok
           THEN /\ heap' = r.heap
                /\ stack' = <<[fr EXCEPT !.pc = "ctor"]>>
                /\ log' = Append(log, [ev |-> "assign", this |-> fr.result,
                                       args |-> <<>>])
                /\ UNCHANGED <<prog, last, aux>>
           ELSE Throw(r.heap)

\* Lines 119-122.
Constructor ==
  /\ stack # NoFrame
  /\ stack[1].pc = "ctor"
  /\ LET fr == stack[1]
         ctor == DescriptorGet(prog.descriptor, "constructor")
         user == Truthy(ctor) /\ ctor # Fn(FnObject)
         r == IF user
                THEN RunWrites(heap, fr.result, prog.funcs[ctor.id].writes,
                               ConstructorArgs(fr), 1)
                ELSE [ok |-> TRUE, heap |-> heap]
     IN  IF r.ok
           THEN /\ heap' = r.heap
                /\ stack' = NoFrame
                /\ log' = IF user
                            THEN Append(log, [ev |-> "constructor", this |-> fr.result,
                                              args |-> ConstructorArgs(fr)])
                            ELSE log
                /\ last' = [op |-> "construct", status |-> "ok", result |-> fr.result,
                            courier |-> fr.courier, args |-> fr.args]
                /\ UNCHANGED <<prog, aux>>
           ELSE Throw(r.heap)

NextExtend ==
  \/ Extend
  \/ \E a \in ArgVals, b \in ArgVals : Construct(<<Num(a), Num(b)>>)
  \/ PreConstructor
  \/ BaseConstruct
  \/ AssignCourier
  \/ Constructor

SpecExtend == InitExtend /\ [][NextExtend]_vars

----------------------------------------------------------------------------
(* Claims about extend *)

Supplied(key) == Len(Lookup(prog.descriptor, key, 1)) > 0

Built == stack = NoFrame /\ last.op = "construct" /\ last.status = "ok"

\* The argument list the base constructor is to get for the caller's list A.
ExpectedBaseArgs(A) ==
  IF Supplied("preConstructor") THEN EvalAll(prog.funcs[FnPre].returns, A) ELSE A

\* The calls of user code a construction with arguments A is to make, in order.
ExpectedCalls(A, courier, result) ==
  (IF Supplied("preConstructor")
     THEN <<[ev |-> "preConstructor", this |-> courier, args |-> A]>> ELSE <<>>)
  \o <<[ev |-> "base", this |-> result, args |-> ExpectedBaseArgs(A)]>>
  \o (IF Supplied("constructor")
        THEN <<[ev |-> "constructor", this |-> result, args |-> A]>> ELSE <<>>)

IsCall(e) == e.ev # "assign"

\* The example of the README and of the spec: B(v) storing v,
\* preConstructor(a, b) returning [a + b], constructor(a, b) setting sum and b.
IsExample ==
  /\ Supplied("preConstructor") /\ Supplied("constructor")
  /\ prog.funcs[FnPre] = [writes |-> <<>>, returns |-> <<SumE>>]
  /\ prog.funcs[FnCtor].writes = <<<<"sum", ArgE(1)>>, <<"b", ArgE(2)>>>>
  /\ prog.funcs[FnBase].writes = <<<<"v", ArgE(1)>>>>

\* C1: a finished construction with arguments A has called preConstructor (if
\* supplied) on the courier with A, then the base constructor on the new
\* instance with the preConstructor's returned list (A when none was supplied),
\* then constructor (if supplied) on the new instance with A, in this order and
\* nothing else; the example constructed with (3, 4) has v = 7, sum = 3, b = 4.
C1_ConstructionOrder ==
  Built =>
    /\ SelectSeq(log, IsCall) = ExpectedCalls(last.args, last.courier, last.result)
    /\ last.courier # last.result
    /\ (IsExample /\ last.args = <<Num(3), Num(4)>>) =>
         /\ Get(heap, last.result, "v") = Num(7)
         /\ Get(heap, last.result, "sum") = Num(3)
         /\ Get(heap, last.result, "b") = Num(4)

C1_Witness ==
  /\ Built /\ IsExample /\ last.args = <<Num(3), Num(4)>>
  /\ Len(SelectSeq(log, IsCall)) = 3
  /\ Get(heap, last.result, "v") = Num(7)

\* What the user functions write to field f, as <<value>> or <<>>.
CtorWrites(f, A) ==
  LET w == IF Supplied("constructor")
             THEN WrittenBy(prog.funcs[FnCtor].writes, f, Len(prog.funcs[FnCtor].writes))
             ELSE <<>>
  IN  IF Len(w) > 0 THEN <<Eval(w[1], A)>> ELSE <<>>

PreWrites(f, A) ==
  LET w == IF Supplied("preConstructor")
             THEN WrittenBy(prog.funcs[FnPre].writes, f, Len(prog.funcs[FnPre].writes))
             ELSE <<>>
  IN  IF Len(w) > 0 THEN <<Eval(w[1], A)>> ELSE <<>>

BaseWrites(f, A) ==
  LET w == WrittenBy(prog.funcs[FnBase].writes, f, Len(prog.funcs[FnBase].writes))
  IN  IF Len(w) > 0 THEN <<Eval(w[1], ExpectedBaseArgs(A))>> ELSE <<>>

ExpectedField(f, A) ==
  IF Len(CtorWrites(f, A)) > 0 THEN CtorWrites(f, A)
  ELSE IF Len(PreWrites(f, A)) > 0 THEN PreWrites(f, A)
  ELSE BaseWrites(f, A)

Position(ev) == CHOOSE i \in 1..Len(log) : log[i].ev = ev

Logged(ev) == \E i \in 1..Len(log) : log[i].ev = ev

\* C2: on a built instance every field the preConstructor wrote on the courier
\* is an own field; the copy comes after the base constructor and before
\* constructor; each field holds constructor's value if constructor wrote it,
\* else the courier's if preConstructor wrote it, else the base constructor's;
\* and the courier is not the instance.
C2_CourierCopy ==
  Built =>
    /\ last.courier # last.result
    /\ \A f \in Fields :
         /\ HasOwn(heap, last.courier, f) => HasOwn(heap, last.result, f)
         /\ HasOwn(heap, last.courier, f) <=> Len(PreWrites(f, last.args)) > 0
         /\ HasOwn(heap, last.result, f) <=> Len(ExpectedField(f, last.args)) > 0
         /\ HasOwn(heap, last.result, f) =>
              heap[last.result].props[f].value = ExpectedField(f, last.args)[1]
    /\ Logged("assign") /\ Position("base") < Position("assign")
    /\ Logged("constructor") => Position("assign") < Position("constructor")

\* A built instance with a field all three wrote, one only the base constructor
\* and the preConstructor wrote, and one on the prototype too.
C2_Witness ==
  /\ Built
  /\ Len(CtorWrites("f", last.args)) > 0 /\ Len(PreWrites("f", last.args)) > 0
  /\ Len(BaseWrites("f", last.args)) > 0
  /\ Len(CtorWrites("sum", last.args)) = 0 /\ Len(PreWrites("sum", last.args)) > 0
  /\ Len(BaseWrites("sum", last.args)) > 0
  /\ Get(heap, last.result, "sum") = Num(20)
  /\ Get(heap, last.result, "f") = Num(30)
  /\ HasOwn(heap, heap[last.result].proto, "f")

----------------------------------------------------------------------------
(* enhance *)

MaxEnhance == 2

MaxAssign == 2

\* Two classes: Base, and Derived whose prototype's parent is Base's.
Classes == {"Base", "Derived"}

ClassPrototype(c) == IF c = "Base" THEN 1 ELSE 2

Names == {"x", "y"}

ReadOnly7 == property(<<[writable |-> FALSE, value |-> Num(7)]>>)

\* What a member map may hold for a name: plain values and tagged descriptors.
PlainMembers == {Num(5), Num(6)}

TaggedMembers ==
  { ReadOnly7,
    property(<<>>),
    property(<<[value |-> Num(6), writable |-> TRUE, enumerable |-> TRUE,
                configurable |-> TRUE]>>) }

Members == PlainMembers \cup TaggedMembers

\* Member maps of one entry, and one of two entries.
MemberMaps ==
  { <<<<k, m>>>> : k \in Names, m \in Members }
  \cup { <<<<"x", Num(5)>>, <<"y", ReadOnly7>>>> }

\* The member maps the model enhances the base class with.
BaseMemberMaps ==
  { <<<<"y", Num(6)>>>>, <<<<"y", ReadOnly7>>>> }

MapsFor(c) == IF c = "Base" THEN BaseMemberMaps ELSE MemberMaps

AssignVals == {Num(8)}

\* The value a member supplies for its name, as <<v>>; <<>> for a tagged
\* descriptor that has no value field.
SuppliedValue(member) ==
  IF isMarkedPropertyDescriptor(member)
    THEN (IF Has(member, "value") THEN <<member.value>> ELSE <<>>)
    ELSE <<member>>

NoValues == [c \in Classes |-> [k \in Names |-> <<>>]]

RECURSIVE Noted(_, _, _, _)
\* Bookkeeping of the claims: per class and name, the value supplied by the
\* latest of the entries 1..n of a member map that supplies one for it.
Noted(values, c, members, n) ==
  IF n = 0 THEN values
  ELSE LET before == Noted(values, c, members, n - 1)
           v == SuppliedValue(members[n][2])
       IN  IF Len(v) = 0 THEN before
           ELSE [before EXCEPT ![c][members[n][1]] = v]

InitEnhance ==
  /\ heap = <<NewObject(Null), NewObject(1)>>
  /\ prog = <<>>
  /\ stack = NoFrame
  /\ log = <<>>
  /\ last = NoLast
  /\ aux = [enhanced |-> 0, assigned |-> 0, installed |-> NoValues]

Instances == {o \in 1..Len(heap) : o \notin {ClassPrototype(c) : c \in Classes}}

\* new c(): the classes' own constructors write no field.
New(c) ==
  /\ Cardinality(Instances) < MaxInstances
  /\ heap' = Append(heap, NewObject(ClassPrototype(c)))
  /\ UNCHANGED <<prog, stack, log, last, aux>>

\* enhance(constructor, members), lines 84-99.  aux.installed is the claims'
\* bookkeeping: per class and name, the value of the latest entry that was
\* applied without raising.
Enhance(c, members) ==
  /\ aux.enhanced < MaxEnhance
  /\ LET r == ApplyMembers(heap, ClassPrototype(c), members, 1, {})
         applied == IF r.ok THEN Len(members) ELSE r.at - 1
     IN  /\ heap' = r.heap
         /\ last' = [op |-> "enhance", status |-> IF r.ok THEN "ok" ELSE "throw",
                     class |-> c, members |-> members, at |-> r.at]
         /\ aux' = [aux EXCEPT !.enhanced = @ + 1,
                               !.installed = Noted(@, c, members, applied)]
  /\ UNCHANGED <<prog, stack, log>>

\* instance[k] = v in user code; a failed assignment raises (strict code) or is
\* ignored (sloppy code), and changes nothing either way.
Assign(i, k, v) ==
  /\ aux.assigned < MaxAssign
  /\ heap' = Set(heap, i, k, v).heap
  /\ aux' = [aux EXCEPT !.assigned = @ + 1]
  /\ UNCHANGED <<prog, stack, log, last>>

NextEnhance ==
  \/ \E c \in Classes : New(c)
  \/ \E c \in Classes : \E members \in MapsFor(c) : Enhance(c, members)
  \/ \E i \in Instances, k \in Names, v \in AssignVals : Assign(i, k, v)

SpecEnhance == InitEnhance /\ [][NextEnhance]_vars

----------------------------------------------------------------------------
(* Claims about enhance *)

EnhanceStep == aux'.enhanced # aux.enhanced

AssignStep == aux'.assigned # aux.assigned

\* The instances of class c: the objects whose prototype is c's.
InstancesOf(h, c) ==
  {o \in 1..Len(h) : o \notin {ClassPrototype(x) : x \in Classes}
                     /\ h[o].proto = ClassPrototype(c)}

\* A member that cannot be replaced the way `member` asks: for a plain value, a
\* non-writable property of the prototype or of an ancestor; for a tagged
\* descriptor, a non-configurable own property of the prototype.
Frozen(h, proto, key, member) ==
  IF isMarkedPropertyDescriptor(member)
    THEN HasOwn(h, proto, key) /\ ~h[proto].props[key].configurable
    ELSE LET owner == FindProp(h, proto, key)
         IN  owner # Null /\ ~h[owner].props[key].writable

InstalledIsRead ==
  \A c \in Classes, k \in Names :
    Len(aux.installed[c][k]) > 0 =>
      \A i \in InstancesOf(heap, c) :
        ~HasOwn(heap, i, k) => Get(heap, i, k) = aux.installed[c][k][1]

Attributes == {"value", "writable", "enumerable", "configurable"}

\* Instance i reads 7 for k from a non-writable property of its prototype chain.
ReadsReadOnly7(h, i, k) ==
  /\ ~HasOwn(h, i, k)
  /\ LET owner == FindProp(h, i, k)
     IN  /\ owner # Null
         /\ h[owner].props[k].value = Num(7)
         /\ ~h[owner].props[k].writable

AssignmentsKeepReadOnly ==
  AssignStep =>
    \A i \in Instances, k \in Names :
      ReadsReadOnly7(heap, i, k) => ReadsReadOnly7(heap', i, k)

----------------------------------------------------------------------------
(* callSuper and $super *)

MaxLevels == 3

MaxCalls == 2

MaxDepth == 5

BaseReference == "$BaseReference"

SuperProxy == "$SuperProxy"

MethodNames == {"m", "n"}

OtherName(name) == IF name = "m" THEN "n" ELSE "m"

\* A method body is a list of instructions, after which the method returns
\* what its calls returned followed by its own mark:
\*   "super"  callSuper(this, <own name>, ...arguments)
\*   "proxy"  $super(this).<own name>(...arguments)
\*   "other"  this.<other name>(...arguments)
\*   "throw"  throw
\* <<"absent">> stands for a level that does not define the method.
Absent == <<"absent">>

BodiesM ==
  { Absent, <<>>, <<"proxy">>, <<"super", "super">>, <<"throw">>, <<"other">> }

\* The classes of a chain of `depth` levels, level 1 the topmost base: m is any
\* of BodiesM at each level; n is either nowhere or everywhere, each override
\* but the topmost calling callSuper first.
BodyN(level, everywhere) ==
  IF ~everywhere THEN Absent ELSE IF level = 1 THEN <<>> ELSE <<"super">>

\* The function defined at `level` for `name` is function 2 * level - 1 (m) or
\* 2 * level (n).
FnId(level, name) == IF name = "m" THEN 2 * level - 1 ELSE 2 * level

FnLevel(f) == (f + 1) \div 2

FnName(f) == IF f % 2 = 1 THEN "m" ELSE "n"

Programs ==
  { [depth |-> d,
     body |-> [f \in 1..(2 * d) |->
                 IF FnName(f) = "m" THEN ms[FnLevel(f)] ELSE BodyN(FnLevel(f), e)]] :
      d \in 2..MaxLevels, ms \in [1..MaxLevels -> BodiesM], e \in BOOLEAN }

\* The instances, of the most derived class, are the objects after the
\* prototypes: two of them on a chain of two levels, one on a longer chain.
NumReceivers(pr) == IF pr.depth = 2 THEN 2 ELSE 1

\* The prototype of level j is object j; its own methods are plain properties.
LevelPrototype(pr, j) ==
  [proto |-> j - 1,
   props |-> [k \in {name \in MethodNames : pr.body[FnId(j, name)] # Absent} |->
                DataDesc(Fn(FnId(j, k)))]]

Receivers == (prog.depth + 1)..(prog.depth + NumReceivers(prog))

CallArgs == <<Num(3)>>

NoCallSuper == [target |-> Null, name |-> "", base |-> Null, found |-> Null,
                proxy |-> 0, this |-> Null, args |-> <<>>]

InitSuper ==
  /\ prog \in Programs
  /\ heap = [o \in 1..(prog.depth + NumReceivers(prog)) |->
               IF o <= prog.depth THEN LevelPrototype(prog, o)
               ELSE NewObject(prog.depth)]
  /\ stack = <<>>
  /\ log = <<>>
  /\ last = NoLast
  /\ aux = [calls |-> 0, proxies |-> <<>>, first |-> [i \in Receivers |-> 0],
            cs |-> NoCallSuper]

RECURSIVE Walk(_, _, _, _, _)
\* The loop of lines 17-39: the level whose method callSuper applies, or Null.
Walk(h, base, methodName, directBaseMethod, isSuper) ==
  IF base = Null THEN Null
  ELSE IF HasOwn(h, base, methodName)
    THEN IF h[base].props[methodName].value = directBaseMethod
           THEN Walk(h, h[base].proto, methodName, directBaseMethod, TRUE)
         ELSE IF isSuper THEN base
         ELSE Walk(h, h[base].proto, methodName, directBaseMethod, isSuper)
  ELSE Walk(h, h[base].proto, methodName, directBaseMethod, isSuper)

StartBaseAtTarget(h, target) == target

\* Lines 12-14: where the walk starts.
StartBase(h, target) ==
  IF HasProperty(h, target, BaseReference)
    THEN Get(h, target, BaseReference).id
    ELSE target

RECURSIVE WalkToNearest(_, _, _, _, _)
WalkToNearest(h, base, methodName, directBaseMethod, isSuper) ==
  IF base = Null THEN Null
  ELSE IF HasOwn(h, base, methodName) THEN base
  ELSE WalkToNearest(h, h[base].proto, methodName, directBaseMethod, isSuper)

FindNearest(h, base, methodName, directBaseMethod) ==
  WalkToNearest(h, base, methodName, directBaseMethod, FALSE)

\* The walk of callSuper from `base`.
FindSuper(h, base, methodName, directBaseMethod) ==
  Walk(h, base, methodName, directBaseMethod, FALSE)

\* Lines 12-28 and 37-40 of callSuper: [base, found], found = Null when the
\* function returns undefined at line 40.
callSuper(h, target, methodName) ==
  LET base == StartBase(h, target)
  IN  [base |-> base,
       found |-> FindSuper(h, base, methodName, Get(h, base, methodName))]

superUncached(h, proxies, this) ==
  [heap |-> Set(h, this, SuperProxy, ProxyVal(Len(proxies) + 1)).heap,
   proxies |-> Append(proxies, this),
   proxy |-> Len(proxies) + 1]

\* $super($this), lines 49-62: [heap, proxies, proxy]; `proxies` gives each
\* proxy's target.
super(h, proxies, this) ==
  IF HasProperty(h, this, SuperProxy)
    THEN [heap |-> h, proxies |-> proxies, proxy |-> Get(h, this, SuperProxy).id]
    ELSE [heap |-> Set(h, this, SuperProxy, ProxyVal(Len(proxies) + 1)).heap,
          proxies |-> Append(proxies, this),
          proxy |-> Len(proxies) + 1]

Top == stack[Len(stack)]

Rest == SubSeq(stack, 1, Len(stack) - 1)

Running(op, name, this) ==
  [op |-> op, name |-> name, this |-> this, status |-> "running",
   defined |-> FALSE, value |-> <<>>]

\* A value comes back to the caller: the client when the stack `stk` is empty,
\* else the method on top of it, which goes on after its call.
Deliver(stk, defined, value) ==
  /\ stack' = IF stk = <<>> THEN stk
              ELSE [stk EXCEPT ![Len(stk)].pc = @ + 1,
                               ![Len(stk)].acc = @ \o (IF defined THEN value ELSE <<0>>)]
  /\ last' = IF stk = <<>>
               THEN [last EXCEPT !.status = "ok", !.defined = defined, !.value = value]
               ELSE last

Frame(f, this, args, via) ==
  [fn |-> f, this |-> this, args |-> args, pc |-> 1, acc |-> <<>>, via |-> via]

Invoked(f, this, args, via) ==
  [ev |-> "invoke", fn |-> f, this |-> this, args |-> args, via |-> via]

\* callSuper(target, methodName, ...args), lines 11-30 and 40, called with the
\* heap h, the proxy table px, the observation log lg and the caller's record
\* lst; proxy is the proxy the call came through (0: none).  aux.cs records the
\* call for the claims: its target, where its walk started and what it found.
CallSuper(h, px, lg, lst, target, methodName, args, proxy, first) ==
  LET r == callSuper(h, target, methodName)
      cs == [target |-> target, name |-> methodName, base |-> r.base,
             found |-> r.found, proxy |-> proxy,
             this |-> IF stack = <<>> THEN lst.this ELSE Top.this, args |-> args]
  IN  /\ aux' = [aux EXCEPT !.proxies = px, !.first = first, !.cs = cs,
                            !.calls = IF stack = <<>> THEN @ + 1 ELSE @]
      /\ IF r.found = Null
           THEN /\ heap' = h
                /\ log' = lg
                /\ stack' = IF stack = <<>> THEN stack
                            ELSE [stack EXCEPT ![Len(stack)].pc = @ + 1,
                                               ![Len(stack)].acc = @ \o <<0>>]
                /\ last' = IF stack = <<>> THEN [lst EXCEPT !.status = "ok"] ELSE lst
           ELSE LET f == h[r.found].props[methodName].value.id
                IN  /\ Len(stack) < MaxDepth
                    /\ heap' = Set(h, target, BaseReference, Ref(r.found)).heap
                    /\ stack' = Append(stack, Frame(f, target, args, "super"))
                    /\ log' = Append(lg, Invoked(f, target, args, "super"))
                    /\ last' = lst

Idle == stack = <<>> /\ aux.calls < MaxCalls

\* The client calls instance.name(...args).
Invoke(i, name) ==
  /\ Idle
  /\ LET f == Get(heap, i, name)
     IN  IF f.kind = "function"
           THEN /\ stack' = <<Frame(f.id, i, CallArgs, "call")>>
                /\ log' = <<Invoked(f.id, i, CallArgs, "call")>>
                /\ last' = Running("invoke", name, i)
           ELSE /\ stack' = <<>>
                /\ log' = <<>>
                /\ last' = [Running("invoke", name, i) EXCEPT !.status = "throw"]
  /\ aux' = [aux EXCEPT !.calls = @ + 1, !.cs = NoCallSuper]
  /\ UNCHANGED <<heap, prog>>

\* The client calls callSuper(instance, name, ...args).
ClientCallSuper(i, name) ==
  /\ Idle
  /\ CallSuper(heap, aux.proxies, <<>>, Running("callSuper", name, i), i, name,
               CallArgs, 0, aux.first)
  /\ UNCHANGED prog

\* The first proxy $super returned for each instance (the claims' bookkeeping).
FirstProxy(i, p) == IF aux.first[i] = 0 THEN [aux.first EXCEPT ![i] = p] ELSE aux.first

SuperEvent(this, p) ==
  [ev |-> "$super", fn |-> p, this |-> this, args |-> <<>>, via |-> ""]

\* The client calls $super(instance).
ClientSuper(i) ==
  /\ Idle
  /\ LET s == super(heap, aux.proxies, i)
     IN  /\ heap' = s.heap
         /\ aux' = [aux EXCEPT !.proxies = s.proxies, !.calls = @ + 1,
                               !.first = FirstProxy(i, s.proxy), !.cs = NoCallSuper]
         /\ log' = <<SuperEvent(i, s.proxy)>>
         /\ last' = [Running("$super", "", i) EXCEPT !.status = "ok", !.defined = TRUE,
                                                     !.value = <<s.proxy>>]
  /\ UNCHANGED <<prog, stack>>

\* The client calls $super(instance).name(...args): the proxy's get trap gives
\* a function that calls callSuper(target, property, ...args), lines 54-58.
ClientProxyCall(i, name) ==
  /\ Idle
  /\ LET s == super(heap, aux.proxies, i)
     IN  CallSuper(s.heap, s.proxies, <<SuperEvent(i, s.proxy)>>,
                   Running("proxy", name, i), s.proxies[s.proxy], name, CallArgs,
                   s.proxy, FirstProxy(i, s.proxy))
  /\ UNCHANGED prog

Body == prog.body[Top.fn]

At(instr) ==
  /\ stack # <<>>
  /\ Top.pc <= Len(Body)
  /\ Body[Top.pc] = instr

\* A method runs callSuper(this, <own name>, ...arguments).
StepSuper ==
  /\ At("super")
  /\ CallSuper(heap, aux.proxies, log, last, Top.this, FnName(Top.fn), Top.args, 0,
               aux.first)
  /\ UNCHANGED prog

\* A method runs $super(this).<own name>(...arguments).
StepProxy ==
  /\ At("proxy")
  /\ LET s == super(heap, aux.proxies, Top.this)
     IN  CallSuper(s.heap, s.proxies, Append(log, SuperEvent(Top.this, s.proxy)), last,
                   s.proxies[s.proxy], FnName(Top.fn), Top.args, s.proxy,
                   FirstProxy(Top.this, s.proxy))
  /\ UNCHANGED prog

\* An exception leaves every activation: neither callSuper nor the methods
\* catch, so line 33 is not reached.
Raise ==
  /\ stack' = <<>>
  /\ last' = [last EXCEPT !.status = "throw"]
  /\ UNCHANGED <<heap, prog, log, aux>>

\* A method runs this.<other name>(...arguments), an ordinary call.
StepOther ==
  /\ At("other")
  /\ LET f == Get(heap, Top.this, OtherName(FnName(Top.fn)))
     IN  IF f.kind = "function"
           THEN /\ Len(stack) < MaxDepth
                /\ stack' = Append(stack, Frame(f.id, Top.this, Top.args, "call"))
                /\ log' = Append(log, Invoked(f.id, Top.this, Top.args, "call"))
                /\ UNCHANGED <<heap, prog, last, aux>>
           ELSE Raise

\* A method throws.
StepThrow ==
  /\ At("throw")
  /\ Raise

\* A method returns.  When callSuper applied it (line 30), callSuper deletes
\* the marker and returns the method's result (lines 33-34).
Return ==
  /\ stack # <<>>
  /\ Top.pc > Len(Body)
  /\ heap' = IF Top.via = "super" THEN DeleteProp(heap, Top.this, BaseReference)
             ELSE heap
  /\ Deliver(Rest, TRUE, Top.acc \o <<Top.fn>>)
  /\ UNCHANGED <<prog, log, aux>>

NextSuper ==
  \/ \E i \in Receivers, name \in MethodNames : Invoke(i, name)
  \/ \E i \in Receivers, name \in MethodNames : ClientCallSuper(i, name)
  \/ \E i \in Receivers : ClientSuper(i)
  \/ \E i \in Receivers, name \in MethodNames : ClientProxyCall(i, name)
  \/ StepSuper
  \/ StepProxy
  \/ StepOther
  \/ StepThrow
  \/ Return

SpecSuper == InitSuper /\ [][NextSuper]_vars

----------------------------------------------------------------------------
(* Claims about callSuper and $super *)

IsInvoke(e) == e.ev = "invoke"

Invocations(lg) == SelectSeq(lg, IsInvoke)

IsPrefix(a, b) == Len(a) <= Len(b) /\ a = SubSeq(b, 1, Len(a))

\* Every level overrides m, the topmost returning its mark and every other
\* level calling $super(this).m() first.
ChainProgram ==
  \A j \in 1..prog.depth :
    prog.body[FnId(j, "m")] = IF j = 1 THEN <<>> ELSE <<"proxy">>

\* The invocations instance.m() is to make on such a chain, most derived first.
ChainInvocations(i) ==
  [k \in 1..prog.depth |->
     Invoked(FnId(prog.depth + 1 - k, "m"), i, CallArgs,
             IF k = 1 THEN "call" ELSE "super")]

\* C5: on a chain of two or more levels that all override m, every override but
\* the topmost calling $super(this).m() first, instance.m() invokes each
\* level's override once, most derived first, each with the instance as
\* receiver, returns the marks in base-to-derived order and leaves no
\* $BaseReference on the instance.
C5_ChainDispatch ==
  (ChainProgram /\ last.op = "invoke" /\ last.name = "m") =>
    /\ IsPrefix(Invocations(log), ChainInvocations(last.this))
    /\ last.status # "throw"
    /\ stack = <<>> =>
         /\ last.status = "ok" /\ last.defined
         /\ last.value = [j \in 1..prog.depth |-> FnId(j, "m")]
         /\ Invocations(log) = ChainInvocations(last.this)
         /\ ~HasProperty(heap, last.this, BaseReference)

C5_Witness ==
  /\ ChainProgram /\ prog.depth = 3
  /\ stack = <<>> /\ last.op = "invoke" /\ last.name = "m" /\ last.status = "ok"
  /\ last.value = <<1, 3, 5>>
  /\ Len(Invocations(log)) = 3

CallSuperStep ==
  \/ /\ stack # <<>>
     /\ Top.pc <= Len(Body)
     /\ Body[Top.pc] \in {"super", "proxy"}
  \/ /\ stack = <<>>
     /\ aux'.calls # aux.calls
     /\ last'.op \in {"callSuper", "proxy"}

RECURSIVE InChain(_, _, _)
InChain(h, from, o) ==
  from # Null /\ (from = o \/ InChain(h, h[from].proto, o))

\* The objects of target's prototype chain, target included, that own `name`.
Owners(h, target, name) ==
  {o \in DOMAIN h : InChain(h, target, o) /\ HasOwn(h, o, name)}

\* C7: a callSuper whose method name is defined nowhere in the target's chain,
\* or at one level only, returns undefined without raising, invokes no method
\* and leaves the target as it was, the $BaseReference marker included.
C7_AbsentAncestor ==
  [][(CallSuperStep
      /\ Cardinality(Owners(heap, aux'.cs.target, aux'.cs.name)) <= 1) =>
       LET t == aux'.cs.target
       IN  /\ aux'.cs.found = Null
           /\ Len(stack') = Len(stack)
           /\ Invocations(log') = IF stack = <<>> THEN <<>> ELSE Invocations(log)
           /\ HasOwn(heap', t, BaseReference) <=> HasOwn(heap, t, BaseReference)
           /\ Get(heap', t, BaseReference) = Get(heap, t, BaseReference)
           /\ aux'.cs.proxy = 0 => heap' = heap
           /\ IF stack = <<>>
                THEN last'.status = "ok" /\ ~last'.defined
                ELSE /\ stack'[Len(stack)].pc = Top.pc + 1
                     /\ stack'[Len(stack)].acc = Top.acc \o <<0>>
    ]_vars

\* The client's callSuper(instance, "n") with n defined nowhere has returned
\* undefined; and so has one for a name defined at one level.
C7_Witness ==
  /\ stack = <<>> /\ last.op = "callSuper" /\ last.status = "ok" /\ ~last.defined
  /\ aux.cs.target = last.this /\ aux.cs.found = Null
  /\ Owners(heap, last.this, "n") = {}
  /\ Cardinality(Owners(heap, last.this, "m")) = 1
  /\ aux.cs.name = "m"

\* C8: every $super call on an instance returns the proxy the first call on
\* that instance returned, whose target is that instance; at most one proxy is
\* ever made per instance, and it stays the instance's $SuperProxy; a call
\* through the proxy is a callSuper on that same instance.
C8_WrapperCached ==
  /\ \A k \in 1..Len(log) :
       log[k].ev = "$super" =>
         /\ log[k].fn = aux.first[log[k].this]
         /\ aux.proxies[log[k].fn] = log[k].this
  /\ \A i \in Receivers :
       /\ Cardinality({p \in 1..Len(aux.proxies) : aux.proxies[p] = i}) <= 1
       /\ aux.first[i] # 0 => Get(heap, i, SuperProxy) = ProxyVal(aux.first[i])
       /\ aux.first[i] = 0 => ~HasProperty(heap, i, SuperProxy)
  /\ aux.cs.proxy # 0 =>
       /\ aux.cs.target = aux.cs.this
       /\ aux.proxies[aux.cs.proxy] = aux.cs.this

\* $super was called twice on one instance during one call, after an earlier
\* call had made a proxy for the other instance.
C8_Witness ==
  /\ Len(aux.proxies) = 2
  /\ \E j, k \in 1..Len(log) :
       /\ j < k
       /\ log[j].ev = "$super" /\ log[k].ev = "$super"
       /\ log[j].this = log[k].this
       /\ log[j].fn = 2
  /\ aux.cs.proxy = 2

\* The nearest level strictly above `level` that defines `name`, or Null.
NearestAbove(h, level, name) == FindProp(h, h[level].proto, name)

\* C9 as stated: a callSuper for n, made by the override of n at level L that
\* an ordinary call from a dispatched method of the other name reached, applies
\* the nearest override of n strictly above L.
C9_NoCrossTalk ==
  [][(/\ CallSuperStep
      /\ Len(stack) >= 2
      /\ Top.via = "call"
      /\ stack[Len(stack) - 1].via = "super"
      /\ FnName(stack[Len(stack) - 1].fn) # FnName(Top.fn)) =>
       aux'.cs.found = NearestAbove(heap, FnLevel(Top.fn), FnName(Top.fn))
    ]_vars

NestedDispatch ==
  /\ CallSuperStep
  /\ stack # <<>>
  /\ Len(stack') = Len(stack) + 1

====
